---- MODULE Spec2Model ----
(***************************************************************************)
(* A model of es::EventScheduler (src/scheduler.hpp): the event slab, the  *)
(* generation table, the free list, the binary heap behind                 *)
(* std::priority_queue, the mutation queue (delay_ops) and the dispatch    *)
(* loops of tick/run/resume with re-entrant callbacks.                     *)
(*                                                                         *)
(* Conventions.                                                            *)
(*  - Slot indices are 1-based here (index i of the code is i+1 here).     *)
(*  - The invalid EventID {u32max, u32max} is written [index |-> -1,       *)
(*    gen |-> -1].                                                         *)
(*  - size_t counters are kept as integers; a negative value n stands for  *)
(*    the wrapped value 2^64 + n, and comparisons go through UGt.          *)
(*  - A callback is opaque to the scheduler: once invoked it may make any  *)
(*    sequence of public calls and then return or raise.  The field        *)
(*    desc.callback holds the number of the schedule call that installed   *)
(*    it, which identifies the callback.                                   *)
(*  - std::priority_queue is the binary heap of libstdc++ (push_heap /     *)
(*    pop_heap), with the comparator reading the live event records.       *)
(*  - set_next_fire (src/scheduler.hpp:546) calls default_set_next_fire    *)
(*    without arguments; the model passes (eid, next_fire), the only       *)
(*    arguments in scope.                                                  *)
(***************************************************************************)
EXTENDS Integers, Sequences, FiniteSets, TLC

\* ---------------------------------------------------------------- bounds
MaxSlots == 3
MaxTime == 2
MaxSched == 3
MaxCbOps == 2
MaxGen == 4
MaxFires == 6

\* ------------------------------------------------------- enum constants
System == 0
User == 1
Debug == 2

InvalidID == [index |-> -1, gen |-> -1]

is_valid(eid) == eid.index # -1 /\ eid.gen # -1

\* unsigned comparison a > b of two size_t values
UGt(a, b) == IF (a < 0) = (b < 0) THEN a > b ELSE a < 0

DefaultDesc ==
    [type |-> "Once", interval_ms |-> 0, callback |-> 0, ep |-> "Swallow",
     pri |-> User, cu |-> "All"]

DefaultEvent == [desc |-> DefaultDesc, status |-> "Cancelled", next_fire |-> 0]

\* ------------------------------------------------------------ comparator
tie_break(events, lhs, rhs) ==
    LET le == events[lhs.index]
        re == events[rhs.index]
    IN  IF le.desc.pri = re.desc.pri THEN lhs.index > rhs.index
        ELSE le.desc.pri > re.desc.pri

EventCompare(events, lhs, rhs) ==
    LET le == events[lhs.index]
        re == events[rhs.index]
    IN  IF le.next_fire = re.next_fire THEN tie_break(events, lhs, rhs)
        ELSE le.next_fire > re.next_fire

\* ------------------------------------------------- std::priority_queue
\* positions are 0-based as in the library code
At(h, i) == h[i + 1]
Put(h, i, v) == [h EXCEPT ![i + 1] = v]

RECURSIVE push_heap(_, _, _, _)
push_heap(events, h, hole, value) ==
    LET parent == (hole - 1) \div 2
    IN  IF hole > 0 /\ EventCompare(events, At(h, parent), value)
        THEN push_heap(events, Put(h, hole, At(h, parent)), parent, value)
        ELSE Put(h, hole, value)

RECURSIVE adjust_heap(_, _, _, _, _)
adjust_heap(events, h, hole, len, value) ==
    IF hole < (len - 1) \div 2
    THEN LET right == 2 * (hole + 1)
             child == IF EventCompare(events, At(h, right), At(h, right - 1))
                      THEN right - 1 ELSE right
         IN  adjust_heap(events, Put(h, hole, At(h, child)), child, len, value)
    ELSE IF len % 2 = 0 /\ hole = (len - 2) \div 2
         THEN LET left == 2 * (hole + 1) - 1
              IN  push_heap(events, Put(h, hole, At(h, left)), left, value)
         ELSE push_heap(events, h, hole, value)

pq_push(events, pq, eid) == push_heap(events, Append(pq, eid), Len(pq), eid)

pq_pop(events, pq) ==
    LET len == Len(pq) - 1
    IN  IF len = 0 THEN << >>
        ELSE adjust_heap(events, SubSeq(pq, 1, len), 0, len, pq[len + 1])

pq_top(pq) == pq[1]

\* ----------------------------------------------------- private methods
\* Every method takes the scheduler object s (a record of the data members)
\* and yields the object after the call; a method with a result yields
\* [ret |-> result, s |-> object].

set_event(s, next_fire, d, eid) ==
    LET ev == [s.events EXCEPT ![eid.index] =
                   [desc |-> d, status |-> "Alive", next_fire |-> next_fire]]
    IN  [s EXCEPT !.events = ev,
                  !.pq = pq_push(ev, s.pq, eid),
                  !.alive = s.alive + 1]

append(s) ==
    [ret |-> [index |-> Len(s.events) + 1, gen |-> 0],
     s |-> [s EXCEPT !.events = Append(s.events, DefaultEvent),
                     !.gens = Append(s.gens, 0)]]

reuse(s, eid) ==
    [s EXCEPT !.alive = IF s.events[eid.index].status = "Alive"
                        THEN s.alive - 1 ELSE s.alive,
              !.events[eid.index].status = "Cancelled",
              !.fl = Append(s.fl, eid.index),
              !.gens[eid.index] = s.gens[eid.index] + 1]

pop_fl(s) ==
    LET back == s.fl[Len(s.fl)]
    IN  [ret |-> [index |-> back, gen |-> s.gens[back]],
         s |-> [s EXCEPT !.fl = SubSeq(s.fl, 1, Len(s.fl) - 1)]]

try_pop_cancelled(s) ==
    LET top == pq_top(s.pq)
    IN  IF s.events[top.index].status # "Cancelled" THEN [ret |-> FALSE, s |-> s]
        ELSE [ret |-> TRUE,
              s |-> [s EXCEPT !.pq = pq_pop(s.events, s.pq),
                              !.fl = Append(s.fl, top.index),
                              !.gens[top.index] = s.gens[top.index] + 1,
                              !.cancelled = s.cancelled - 1]]

try_reuse(s, eid) ==
    IF s.events[eid.index].status # "Cancelled" THEN [ret |-> FALSE, s |-> s]
    ELSE [ret |-> TRUE,
          s |-> [s EXCEPT !.fl = Append(s.fl, eid.index),
                          !.gens[eid.index] = s.gens[eid.index] + 1]]

\* a variant in which a paused scheduler does not absorb the tick
try_update_pause_ignored(s, delta_ms) == [ret |-> FALSE, s |-> s]

try_update_pause(s, delta_ms) ==
    IF ~s.paused THEN [ret |-> FALSE, s |-> s]
    ELSE [ret |-> TRUE, s |-> [s EXCEPT !.paused_time_ = s.paused_time_ + delta_ms]]

add_schedule(s, next_fire, d, eid) ==
    [s EXCEPT !.delay_ops = Append(s.delay_ops,
        [op_type |-> "Schedule", next_fire |-> next_fire, desc |-> d, eid |-> eid])]

add_clear(s) ==
    [s EXCEPT !.pending_clear = s.pending_clear + 1,
              !.delay_ops = << [op_type |-> "Clear", next_fire |-> 0,
                                desc |-> DefaultDesc, eid |-> InvalidID] >>]

add_delay(s, eid, next_fire) ==
    [s EXCEPT !.delay_ops = Append(s.delay_ops,
        [op_type |-> "Delay", next_fire |-> next_fire, desc |-> DefaultDesc,
         eid |-> eid])]

\* the slots outside reserved, in ascending order (the loop of lines 218-225)
RECURSIVE unreserved(_, _, _)
unreserved(i, n, reserved) ==
    IF i > n THEN << >>
    ELSE IF i \in reserved THEN unreserved(i + 1, n, reserved)
         ELSE << i >> \o unreserved(i + 1, n, reserved)

clear_in_tick(s, reserved_indices) ==
    LET n == Len(s.events)
    IN  [s EXCEPT !.pq = << >>,
                  !.fl = unreserved(1, n, reserved_indices),
                  !.events = [i \in 1..n |-> [s.events[i] EXCEPT !.status = "Cancelled"]],
                  !.gens = [i \in 1..n |-> s.gens[i] + s.pending_clear],
                  !.alive = 0,
                  !.cancelled = 0,
                  !.fire_count = 0]

handle_clear_op(s, ops, i) ==
    clear_in_tick(s, {ops[j].eid.index : j \in 2..Len(ops)})

default_set_next_fire(s, eid, next_fire) ==
    LET new_id == [index |-> eid.index, gen |-> eid.gen + 1]
    IN  [s EXCEPT !.gens[eid.index] = s.gens[eid.index] + 1,
                  !.pq = pq_push(s.events, s.pq, new_id),
                  !.events[eid.index].next_fire = next_fire]

RECURSIVE flush_from(_, _, _)
flush_from(s, ops, i) ==
    IF i > Len(ops) THEN s
    ELSE LET op == ops[i]
             s1 == IF op.op_type = "Schedule"
                   THEN set_event(s, op.next_fire, op.desc, op.eid)
                   ELSE IF op.op_type = "Clear" THEN handle_clear_op(s, ops, i)
                   ELSE default_set_next_fire(s, op.eid, op.next_fire)
         IN  flush_from(s1, ops, i + 1)

flush_delay_ops(s) == flush_from([s EXCEPT !.delay_ops = << >>], s.delay_ops, 1)

\* ~TickGuard
TickGuardExit(s) ==
    [flush_delay_ops(s) EXCEPT !.pending_clear = 0, !.ticking = FALSE]

\* TickGuard(this)
TickGuardEnter(s) == [s EXCEPT !.ticking = TRUE]

\* a variant that never collapses the missed periods
try_skip_repeat_never(s) == [ret |-> FALSE, s |-> s]

\* a variant that collapses the missed periods whatever the catch-up mode
try_skip_repeat_any(s) ==
    LET top == pq_top(s.pq)
        e == s.events[top.index]
        d == e.desc
        delta == s.current - e.next_fire
        ts == delta \div d.interval_ms
        ev == [s.events EXCEPT ![top.index].next_fire = e.next_fire + ts * d.interval_ms]
    IN  IF d.type # "Repeat" \/ delta <= 0 \/ ts = 0 THEN [ret |-> FALSE, s |-> s]
        ELSE [ret |-> TRUE,
              s |-> [s EXCEPT !.events = ev,
                              !.pq = pq_push(ev, pq_pop(s.events, s.pq), top)]]

try_skip_repeat(s) ==
    LET top == pq_top(s.pq)
        e == s.events[top.index]
        d == e.desc
        delta == s.current - e.next_fire
        ts == delta \div d.interval_ms
        ev == [s.events EXCEPT ![top.index].next_fire = e.next_fire + ts * d.interval_ms]
    IN  IF d.type # "Repeat" \/ d.cu # "Latest" \/ delta <= 0 THEN [ret |-> FALSE, s |-> s]
        ELSE IF ts = 0 THEN [ret |-> FALSE, s |-> s]
        ELSE [ret |-> TRUE,
              s |-> [s EXCEPT !.events = ev,
                              !.pq = pq_push(ev, pq_pop(s.events, s.pq), top)]]

try_skip_old(s) ==
    LET eid == pq_top(s.pq)
    IN  IF eid.gen = s.gens[eid.index] THEN [ret |-> FALSE, s |-> s]
        ELSE [ret |-> TRUE, s |-> [s EXCEPT !.pq = pq_pop(s.events, s.pq)]]

reschedule(s, eid) ==
    LET ev == [s.events EXCEPT ![eid.index].next_fire =
                   @ + s.events[eid.index].desc.interval_ms]
    IN  [s EXCEPT !.events = ev, !.pq = pq_push(ev, s.pq, eid)]

default_clear(s) ==
    [s EXCEPT !.events = << >>, !.pq = << >>, !.fl = << >>, !.gens = << >>,
              !.alive = 0, !.cancelled = 0, !.fire_count = 0]

\* ------------------------------------------------------ public methods
is_alive(s, eid) ==
    IF eid.index < 1 \/ eid.index > Len(s.events) THEN FALSE
    ELSE IF eid.gen # s.gens[eid.index] THEN FALSE
    ELSE s.events[eid.index].status = "Alive"

RECURSIVE rebuild_loop(_, _)
rebuild_loop(s, tmp) ==
    IF s.pq = << >> THEN [s EXCEPT !.pq = tmp, !.cancelled = 0]
    ELSE LET eid == pq_top(s.pq)
             s1 == [s EXCEPT !.pq = pq_pop(s.events, s.pq)]
             r == try_reuse(s1, eid)
         IN  IF r.ret THEN rebuild_loop(r.s, tmp)
             ELSE rebuild_loop(s1, pq_push(s.events, tmp, eid))

rebuild_pq(s) == rebuild_loop(s, << >>)

cancel(s, eid) ==
    IF ~is_valid(eid) \/ ~is_alive(s, eid) THEN [ret |-> FALSE, s |-> s]
    ELSE IF s.events[eid.index].status = "Cancelled" THEN [ret |-> FALSE, s |-> s]
    ELSE LET s1 == [s EXCEPT !.events[eid.index].status = "Cancelled",
                             !.alive = s.alive - 1,
                             !.cancelled = s.cancelled + 1]
         IN  [ret |-> TRUE,
              s |-> IF UGt(s1.cancelled, s1.alive) THEN rebuild_pq(s1) ELSE s1]

\* a variant that installs the event at once, also during a dispatch
schedule_after_eager(s, time_ms, d) ==
    LET a == IF s.fl = << >> THEN append(s) ELSE pop_fl(s)
        eid == [a.ret EXCEPT !.gen = a.ret.gen + s.pending_clear]
    IN  [ret |-> eid, s |-> set_event(a.s, s.current + time_ms, d, eid)]

schedule_after(s, time_ms, d) ==
    LET a == IF s.fl = << >> THEN append(s) ELSE pop_fl(s)
        next_fire == s.current + time_ms
        eid == [a.ret EXCEPT !.gen = a.ret.gen + s.pending_clear]
    IN  [ret |-> eid,
         s |-> IF s.ticking THEN add_schedule(a.s, next_fire, d, eid)
               ELSE set_event(a.s, next_fire, d, eid)]

schedule_at(s, time_ms, d) == schedule_after(s, time_ms - s.current, d)

peek(s) ==
    IF s.pq = << >> THEN << >>
    ELSE << pq_top(s.pq), s.events[pq_top(s.pq).index].next_fire >>

clear(s) == IF s.ticking THEN add_clear(s) ELSE default_clear(s)

pause(s) == [s EXCEPT !.paused = TRUE]

set_priority(s, eid, new_pri) == [s EXCEPT !.events[eid.index].desc.pri = new_pri]

set_interval(s, eid, new_interval) ==
    [s EXCEPT !.events[eid.index].desc.interval_ms = new_interval]

set_type(s, eid, new_type) == [s EXCEPT !.events[eid.index].desc.type = new_type]

set_next_fire(s, eid, next_fire) ==
    IF s.events[eid.index].next_fire = next_fire THEN s
    ELSE IF s.ticking /\ next_fire <= s.current THEN add_delay(s, eid, next_fire)
    ELSE default_set_next_fire(s, eid, next_fire)

delay(s, eid, ms) == set_next_fire(s, eid, s.events[eid.index].next_fire + ms)

\* ------------------------------------------------------- dispatch loops
\* fire_top up to the invocation of the callback (lines 355-361):
\* [s, call]: call is the handle whose callback is invoked next, or
\* InvalidID when fire_top returned without invoking one.
fire_top_enter(s) ==
    LET top == pq_top(s.pq)
        s1 == [s EXCEPT !.fire_count = s.fire_count + 1,
                        !.pq = pq_pop(s.events, s.pq)]
    IN  [s |-> s1,
         call |-> IF s.events[top.index].status # "Alive" THEN InvalidID ELSE top]

\* a variant that reschedules a Repeat event whatever its status
fire_top_leave_always(s, top) ==
    IF s.events[top.index].desc.type = "Repeat" THEN reschedule(s, top)
    ELSE reuse(s, top)

\* fire_top after the callback came back (lines 368-369 and 372-373)
fire_top_leave(s, top) ==
    IF s.events[top.index].desc.type = "Repeat"
       /\ s.events[top.index].status # "Cancelled"
    THEN reschedule(s, top)
    ELSE reuse(s, top)

\* a variant whose catch block never cancels the event
call_catch_keep(s, policy, eid) == [s |-> s, rethrow |-> policy = "Rethrow"]

\* the catch block of call (lines 97-100) for a callback that raised:
\* [s, rethrow]
call_catch(s, policy, eid) ==
    IF policy = "Cancel" THEN [s |-> cancel(s, eid).s, rethrow |-> FALSE]
    ELSE [s |-> s, rethrow |-> policy = "Rethrow"]

\* a variant of tick's loop that leaves an event due exactly now for later
RECURSIVE tick_loop_late(_)
tick_loop_late(s) ==
    IF s.pq = << >> THEN [s |-> s, call |-> InvalidID, over |-> FALSE]
    ELSE LET a == try_pop_cancelled(s)
             b == try_skip_old(s)
             c == try_skip_repeat(s)
             f == fire_top_enter(s)
         IN  IF a.ret THEN tick_loop_late(a.s)
             ELSE IF b.ret THEN tick_loop_late(b.s)
             ELSE IF c.ret THEN tick_loop_late(c.s)
             ELSE IF s.current <= s.events[pq_top(s.pq).index].next_fire
                  THEN [s |-> s, call |-> InvalidID, over |-> FALSE]
             ELSE IF is_valid(f.call) THEN [s |-> f.s, call |-> f.call, over |-> FALSE]
             ELSE tick_loop_late(f.s)

\* the while loop of tick (lines 417-427), run until a callback is invoked
\* (call is its handle) or the loop is left (call = InvalidID)
RECURSIVE tick_loop(_)
tick_loop(s) ==
    IF s.pq = << >> THEN [s |-> s, call |-> InvalidID, over |-> FALSE]
    ELSE LET a == try_pop_cancelled(s)
             b == try_skip_old(s)
             c == try_skip_repeat(s)
             f == fire_top_enter(s)
         IN  IF a.ret THEN tick_loop(a.s)
             ELSE IF b.ret THEN tick_loop(b.s)
             ELSE IF c.ret THEN tick_loop(c.s)
             ELSE IF s.current < s.events[pq_top(s.pq).index].next_fire
                  THEN [s |-> s, call |-> InvalidID, over |-> FALSE]
             ELSE IF is_valid(f.call) THEN [s |-> f.s, call |-> f.call, over |-> FALSE]
             ELSE tick_loop(f.s)

\* the while loop of run (lines 448-458); over: the loop would move the
\* clock past MaxTime, where the model stops following it
RECURSIVE run_loop(_)
run_loop(s) ==
    IF s.pq = << >> THEN [s |-> s, call |-> InvalidID, over |-> FALSE]
    ELSE LET a == try_pop_cancelled(s)
             b == try_skip_repeat(s)
             c == try_skip_old(s)
             nf == s.events[pq_top(s.pq).index].next_fire
             f == fire_top_enter([s EXCEPT !.current = nf])
         IN  IF a.ret THEN run_loop(a.s)
             ELSE IF b.ret THEN run_loop(b.s)
             ELSE IF c.ret THEN run_loop(c.s)
             ELSE IF nf > MaxTime THEN [s |-> s, call |-> InvalidID, over |-> TRUE]
             ELSE IF is_valid(f.call) THEN [s |-> f.s, call |-> f.call, over |-> FALSE]
             ELSE run_loop(f.s)

dispatch_loop(s, m) == IF m = "run" THEN run_loop(s) ELSE tick_loop(s)

\* a dispatch from loop state s on: up to the next invocation of a callback
\* (call is its handle), or to the end of the loop and through ~TickGuard
\* (call = InvalidID); for resume the statement after tick (line 479) follows
dispatch(s, m) ==
    LET r == dispatch_loop(s, m)
        s1 == TickGuardExit(r.s)
    IN  IF is_valid(r.call) \/ r.over THEN r
        ELSE [r EXCEPT !.s = IF m = "resume" THEN [s1 EXCEPT !.paused_time_ = 0]
                             ELSE s1]

\* an error leaves the dispatch (Rethrow): ~TickGuard runs during unwinding,
\* line 479 of resume does not
unwind(s) == TickGuardExit(s)

\* the dispatch after the callback of top returned
after_return(s, top, m) == dispatch(fire_top_leave(s, top), m)

\* the dispatch after the callback of top raised: [s, call, over, thrown]
after_throw(s, policy, top, m) ==
    LET c == call_catch(s, policy, top)
        s1 == fire_top_leave(c.s, top)
        r == dispatch(s1, m)
    IN  IF c.rethrow
        THEN [s |-> unwind(s1), call |-> InvalidID, over |-> FALSE, thrown |-> TRUE]
        ELSE [s |-> r.s, call |-> r.call, over |-> r.over, thrown |-> FALSE]

Returned(s) == [s |-> s, call |-> InvalidID, over |-> FALSE]

tick_from(s, delta_ms, m) ==
    LET p == try_update_pause(s, delta_ms)
    IN  IF p.ret THEN Returned(p.s)
        ELSE dispatch([TickGuardEnter(s) EXCEPT !.current = s.current + delta_ms], m)

tick(s, delta_ms) == tick_from(s, delta_ms, "tick")

tick_until(s, end_time) ==
    IF end_time <= s.current THEN Returned(s)
    ELSE tick(s, end_time - s.current)

run(s) ==
    IF s.paused THEN Returned(s)
    ELSE dispatch(TickGuardEnter(s), "run")

resume(s) == tick_from([s EXCEPT !.paused = FALSE], s.paused_time_, "resume")

\* ------------------------------------------------------------- state
VARIABLES
    sch,         \* the EventScheduler object (lines 550-562)
    pc,          \* "idle": the host runs; "callback": a callback runs
    top,         \* fire_top's local top: the handle passed to the callback
    ep,          \* call's local ep (line 93)
    mode,        \* the dispatch in progress: "none", "tick", "run", "resume"
    cbops,       \* public calls the running callback has made so far
    nsched,      \* schedule calls made so far
    handle,      \* handle[c]: the EventID returned by schedule call c
    invoked,     \* the schedule calls whose callback has been invoked
    cancelReq,   \* schedule calls whose handle was given to cancel before
                 \* their callback was invoked
    passStart,   \* nsched when the current (or last) dispatch began
    clearMark,   \* nsched at the last clear() made in the current (or last)
                 \* dispatch, -1 when it made none
    clearedUpTo, \* schedule calls 1..clearedUpTo precede a clear that has
                 \* been carried out
    fireTimes,   \* next_fire of the last two events fired, oldest first
    observe      \* which of the history variables invoked, cancelReq and
                 \* fireTimes a specification records ("invoked", "cancel",
                 \* "fires"); constant

vars == << sch, pc, top, ep, mode, cbops, nsched, handle, invoked, cancelReq,
           passStart, clearMark, clearedUpTo, fireTimes, observe >>

frame == << pc, top, ep, mode >>
ghost == << nsched, handle, invoked, cancelReq, passStart, clearMark, clearedUpTo >>

\* the invocations and cancel requests the specification records
Invoking(c) == IF "invoked" \in observe THEN {c} ELSE {}
Requesting(eid) ==
    IF "cancel" \in observe
    THEN {c \in 1..nsched : handle[c] = eid /\ c \notin invoked}
    ELSE {}

\* fireTimes once an event with the given next_fire fires
Firing(next_fire) ==
    IF "fires" \notin observe THEN fireTimes
    ELSE IF Len(fireTimes) < 2 THEN Append(fireTimes, next_fire)
    ELSE << fireTimes[2], next_fire >>

\* the object after construction (lines 296, 550-562)
NewScheduler ==
    [events |-> << >>, pq |-> << >>, fl |-> << >>, gens |-> << >>,
     delay_ops |-> << >>, current |-> 0, paused_time_ |-> 0, alive |-> 0,
     cancelled |-> 0, fire_count |-> 0, pending_clear |-> 0,
     paused |-> FALSE, ticking |-> FALSE]

InitObserving(obs) ==
    /\ observe = obs
    /\ sch = NewScheduler
    /\ pc = "idle"
    /\ top = InvalidID
    /\ ep = "Swallow"
    /\ mode = "none"
    /\ cbops = 0
    /\ nsched = 0
    /\ handle = << >>
    /\ invoked = {}
    /\ cancelReq = {}
    /\ passStart = 0
    /\ clearMark = -1
    /\ clearedUpTo = 0
    /\ fireTimes = << >>

Init == InitObserving({})

Desc(type, interval_ms, policy, pri, cu) ==
    [type |-> type, interval_ms |-> interval_ms, callback |-> 0, ep |-> policy,
     pri |-> pri, cu |-> cu]

Range(f) == {f[i] : i \in DOMAIN f}

\* the callback held by slot i
CallbackOf(s, i) == s.events[i].desc.callback

\* a public call is made by the host between dispatches or by the running
\* callback
CanCall == pc = "idle" \/ (pc = "callback" /\ cbops < MaxCbOps)

Called ==
    /\ cbops' = IF pc = "callback" THEN cbops + 1 ELSE cbops
    /\ UNCHANGED << frame, fireTimes, observe >>

\* the handles a caller can hold: those returned by schedule calls, the
\* invalid handle, the one peek returns and, in a callback taking an
\* EventID, its own
Handles ==
    Range(handle) \cup {InvalidID}
        \cup (IF peek(sch) = << >> THEN {} ELSE {peek(sch)[1]})
        \cup (IF pc = "callback" THEN {top} ELSE {})

\* ------------------------------------------------------------ actions
ScheduleAfter(time_ms, d) ==
    /\ CanCall
    /\ nsched < MaxSched
    /\ sch.fl # << >> \/ Len(sch.events) < MaxSlots
    /\ sch.current + time_ms \in 0..MaxTime
    /\ LET r == schedule_after(sch, time_ms, [d EXCEPT !.callback = nsched + 1])
       IN  /\ sch' = r.s
           /\ handle' = Append(handle, r.ret)
    /\ nsched' = nsched + 1
    /\ Called
    /\ UNCHANGED << invoked, cancelReq, passStart, clearMark, clearedUpTo >>

ScheduleAt(time_ms, d) ==
    /\ CanCall
    /\ nsched < MaxSched
    /\ sch.fl # << >> \/ Len(sch.events) < MaxSlots
    /\ LET r == schedule_at(sch, time_ms, [d EXCEPT !.callback = nsched + 1])
       IN  /\ sch' = r.s
           /\ handle' = Append(handle, r.ret)
    /\ nsched' = nsched + 1
    /\ Called
    /\ UNCHANGED << invoked, cancelReq, passStart, clearMark, clearedUpTo >>

Cancel(eid) ==
    /\ CanCall
    /\ sch' = cancel(sch, eid).s
    /\ cancelReq' = cancelReq \cup Requesting(eid)
    /\ Called
    /\ UNCHANGED << nsched, handle, invoked, passStart, clearMark, clearedUpTo >>

Clear ==
    /\ CanCall
    /\ sch' = clear(sch)
    /\ IF sch.ticking
       THEN clearMark' = nsched /\ UNCHANGED clearedUpTo
       ELSE clearedUpTo' = nsched /\ UNCHANGED clearMark
    /\ Called
    /\ UNCHANGED << nsched, handle, invoked, cancelReq, passStart >>

Pause ==
    /\ CanCall
    /\ sch' = pause(sch)
    /\ Called
    /\ UNCHANGED ghost

SetPriority(eid, new_pri) ==
    /\ CanCall
    /\ is_valid(eid) /\ is_alive(sch, eid)
    /\ sch' = set_priority(sch, eid, new_pri)
    /\ Called
    /\ UNCHANGED ghost

\* set_interval on a Repeat event with a positive interval (the assertions
\* of lines 507-508 are the caller's obligations)
SetInterval(eid, new_interval) ==
    /\ CanCall
    /\ is_valid(eid) /\ is_alive(sch, eid)
    /\ sch.events[eid.index].desc.type = "Repeat"
    /\ new_interval > 0
    /\ sch' = set_interval(sch, eid, new_interval)
    /\ Called
    /\ UNCHANGED ghost

SetType(eid, new_type) ==
    /\ CanCall
    /\ is_valid(eid) /\ is_alive(sch, eid)
    /\ sch' = set_type(sch, eid, new_type)
    /\ Called
    /\ UNCHANGED ghost

SetNextFire(eid, next_fire) ==
    /\ CanCall
    /\ is_valid(eid) /\ is_alive(sch, eid)
    /\ sch.gens[eid.index] < MaxGen
    /\ sch' = set_next_fire(sch, eid, next_fire)
    /\ Called
    /\ UNCHANGED ghost

Delay(eid, ms) ==
    /\ CanCall
    /\ is_valid(eid) /\ is_alive(sch, eid)
    /\ sch.gens[eid.index] < MaxGen
    /\ sch.events[eid.index].next_fire + ms \in 0..MaxTime
    /\ sch' = delay(sch, eid, ms)
    /\ Called
    /\ UNCHANGED ghost

\* the step to the outcome r of a dispatching call or of a callback's end:
\* into the callback of r.call, or back to the host
Step(r, m) ==
    /\ ~r.over
    /\ UNCHANGED observe
    /\ sch' = r.s
    /\ cbops' = 0
    /\ IF is_valid(r.call)
       THEN /\ pc' = "callback"
            /\ top' = r.call
            /\ ep' = r.s.events[r.call.index].desc.ep
            /\ mode' = m
            /\ invoked' = invoked \cup Invoking(CallbackOf(r.s, r.call.index))
            /\ fireTimes' = Firing(r.s.events[r.call.index].next_fire)
            /\ UNCHANGED clearedUpTo
       ELSE /\ pc' = "idle"
            /\ top' = InvalidID
            /\ ep' = "Swallow"
            /\ mode' = "none"
            /\ clearedUpTo' = IF clearMark' >= 0 THEN clearMark' ELSE clearedUpTo
            /\ UNCHANGED << invoked, fireTimes >>

\* the host makes a dispatching call
HostCall(r, m) ==
    /\ pc = "idle"
    /\ passStart' = nsched
    /\ clearMark' = -1
    /\ UNCHANGED << nsched, handle, cancelReq >>
    /\ Step(r, m)

Tick(delta_ms) ==
    /\ sch.current + sch.paused_time_ + delta_ms <= MaxTime
    /\ HostCall(tick(sch, delta_ms), "tick")

TickUntil(end_time) ==
    /\ sch.paused_time_ + end_time <= MaxTime
    /\ HostCall(tick_until(sch, end_time), "tick")

Run == HostCall(run(sch), "run")

Resume ==
    /\ sch.current + sch.paused_time_ <= MaxTime
    /\ HostCall(resume(sch), "resume")

\* the running callback returns
CbReturn ==
    /\ pc = "callback"
    /\ UNCHANGED << nsched, handle, cancelReq, passStart, clearMark >>
    /\ Step(after_return(sch, top, mode), mode)

\* the running callback raises
CbThrow ==
    /\ pc = "callback"
    /\ UNCHANGED << nsched, handle, cancelReq, passStart, clearMark >>
    /\ Step(after_throw(sch, ep, top, mode), mode)

\* ------------------------------------------------------ specifications
Times == 0..MaxTime
Deltas == 0..1

OnceUser == Desc("Once", 0, "Swallow", User, "All")
OnceSystem == Desc("Once", 0, "Swallow", System, "All")
RepeatAll == Desc("Repeat", 1, "Swallow", User, "All")

\* schedule, cancel, clear, tick and run, from the host and from callbacks
Next ==
    \/ \E time_ms \in Deltas, d \in {OnceUser, RepeatAll} : ScheduleAfter(time_ms, d)
    \/ \E time_ms \in Times : ScheduleAt(time_ms, OnceUser)
    \/ \E eid \in Handles : Cancel(eid)
    \/ Clear
    \/ \E delta_ms \in Deltas : Tick(delta_ms)
    \/ Run
    \/ CbReturn

Spec == Init /\ [][Next]_vars

\* the same, recording invocations and cancel requests
SpecCancel == InitObserving({"invoked", "cancel"}) /\ [][Next]_vars

\* the host changes priorities of queued events
NextOrder ==
    \/ pc = "idle" /\ \E time_ms \in Deltas : ScheduleAfter(time_ms, OnceUser)
    \/ pc = "idle" /\ \E eid \in Handles, pri \in {System, User, Debug} :
           SetPriority(eid, pri)
    \/ \E delta_ms \in Deltas : Tick(delta_ms)
    \/ CbReturn

SpecOrder == Init /\ [][NextOrder]_vars

\* pause and resume, tick_until, and clear by the host
NextPause ==
    \/ \E time_ms \in Deltas, d \in {OnceUser, RepeatAll} : ScheduleAfter(time_ms, d)
    \/ Pause
    \/ Resume
    \/ pc = "idle" /\ Clear
    \/ \E delta_ms \in Deltas : Tick(delta_ms)
    \/ \E end_time \in Times : TickUntil(end_time)
    \/ CbReturn

SpecPause == Init /\ [][NextPause]_vars

\* callbacks and the host postpone events, next to schedule, clear and tick
NextRetime ==
    \/ \E time_ms \in Deltas : ScheduleAfter(time_ms, OnceUser)
    \/ Clear
    \/ \E eid \in Handles : Delay(eid, 1)
    \/ \E delta_ms \in Deltas : Tick(delta_ms)
    \/ CbReturn

SpecRetime == Init /\ [][NextRetime]_vars

OnceCancel == Desc("Once", 0, "Cancel", User, "All")
RepeatCancel == Desc("Repeat", 1, "Cancel", User, "All")
OnceRethrow == Desc("Once", 0, "Rethrow", User, "All")
RepeatRethrow == Desc("Repeat", 1, "Rethrow", User, "All")

\* callbacks raise, under each exception policy; the host pauses and resumes
NextThrow ==
    \/ \E time_ms \in Deltas,
          d \in {OnceUser, RepeatAll, OnceCancel, RepeatCancel, OnceRethrow, RepeatRethrow} :
           ScheduleAfter(time_ms, d)
    \/ pc = "idle" /\ Pause
    \/ Resume
    \/ \E delta_ms \in Deltas : Tick(delta_ms)
    \/ Run
    \/ CbReturn
    \/ CbThrow

SpecThrow == Init /\ [][NextThrow]_vars

\* Rethrow callbacks pull events forward to a time that is due (the case
\* set_next_fire defers, line 545) and then return or raise
NextRethrow ==
    \/ \E time_ms \in Deltas, d \in {OnceRethrow, RepeatRethrow} : pc = "idle" /\ nsched < 2 /\ ScheduleAfter(time_ms, d)
    \/ \E eid \in Handles :
           /\ pc = "callback" /\ is_valid(eid) /\ is_alive(sch, eid)
           /\ sch.events[eid.index].next_fire - 1 <= sch.current
           /\ sch.gens[eid.index] < 2
           /\ Delay(eid, -1)
    \/ \E delta_ms \in Deltas : Tick(delta_ms)
    \/ CbReturn
    \/ CbThrow

SpecRethrow == Init /\ [][NextRethrow]_vars

\* the host schedules, cancels, retimes, pauses and advances time; callbacks
\* return at once; the next_fire of each event fired is recorded
NextFires ==
    \/ \E time_ms \in Deltas, d \in {OnceUser, RepeatAll} : pc = "idle" /\ nsched < 2 /\ ScheduleAfter(time_ms, d)
    \/ \E time_ms \in Times : pc = "idle" /\ nsched < 2 /\ ScheduleAt(time_ms, OnceUser)
    \/ \E eid \in Handles : pc = "idle" /\ Cancel(eid)
    \/ \E eid \in Handles, ms \in {-1, 1} : pc = "idle" /\ Delay(eid, ms)
    \/ \E eid \in Handles, next_fire \in Times : pc = "idle" /\ SetNextFire(eid, next_fire)
    \/ pc = "idle" /\ Pause
    \/ Resume
    \/ \E delta_ms \in Deltas : Tick(delta_ms)
    \/ \E end_time \in Times : TickUntil(end_time)
    \/ Run
    \/ CbReturn

SpecFires == InitObserving({"fires"}) /\ [][NextFires]_vars

Intervals == 1..2

\* the host changes the kind and the interval of events; a dispatch is
\* followed for at most MaxFires invocations
NextKind ==
    \/ \E time_ms \in Deltas, d \in {OnceUser, RepeatAll} : pc = "idle" /\ ScheduleAfter(time_ms, d)
    \/ \E eid \in Handles, new_type \in {"Once", "Repeat"} : pc = "idle" /\ SetType(eid, new_type)
    \/ \E eid \in Handles, new_interval \in Intervals : pc = "idle" /\ SetInterval(eid, new_interval)
    \/ \E delta_ms \in Deltas : Tick(delta_ms)
    \/ sch.fire_count < MaxFires /\ CbReturn

SpecKind == Init /\ [][NextKind]_vars

\* ------------------------------------------------------------- claims
AliveSlots(s) == {i \in 1..Len(s.events) : s.events[i].status = "Alive"}

\* the event installed by schedule call c is Alive
EventAlive(s, c) == \E i \in AliveSlots(s) : CallbackOf(s, i) = c

\* the key of slot i is strictly smaller than the key of slot j
KeyLess(s, i, j) ==
    LET a == s.events[i]
        b == s.events[j]
    IN  \/ a.next_fire < b.next_fire
        \/ /\ a.next_fire = b.next_fire
           /\ \/ a.desc.pri < b.desc.pri
              \/ a.desc.pri = b.desc.pri /\ i < j

\* the handle is queued: an entry of the priority queue equals it
Queued(s, eid) == \E k \in 1..Len(s.pq) : s.pq[k] = eid

\* C1: an event scheduled from inside a callback does not fire in that
\* dispatch, also with delay 0 or a target time <= now: no callback invoked
\* during a dispatch belongs to a schedule call made in that dispatch, no such
\* event is installed while the dispatch runs, and when the dispatch ends the
\* events scheduled in it (after its last clear) are installed and queued.
C1_NoFireInSamePass ==
    /\ [](pc = "callback" =>
            /\ CallbackOf(sch, top.index) <= passStart
            /\ \A c \in (passStart + 1)..nsched : ~EventAlive(sch, c))
    /\ [][pc = "callback" /\ pc' = "idle" =>
            \A c \in ((IF clearMark > passStart THEN clearMark ELSE passStart) + 1)..nsched :
                /\ EventAlive(sch', c)
                /\ Queued(sch', handle[c])]_vars

\* a callback is invoked while an event scheduled earlier in the same
\* dispatch, and due, waits in the mutation queue
C1_Witness ==
    /\ pc = "callback"
    /\ cbops = 0
    /\ \E k \in 1..Len(sch.delay_ops) :
           /\ sch.delay_ops[k].op_type = "Schedule"
           /\ sch.delay_ops[k].next_fire <= sch.current

\* C2: when a callback is invoked, no other Alive event that is due has a
\* strictly smaller key (next_fire, priority rank, slot index).
C2_StrictOrder ==
    pc = "callback" /\ cbops = 0 =>
        ~\E j \in AliveSlots(sch) :
            /\ j # top.index
            /\ sch.events[j].next_fire <= sch.current
            /\ KeyLess(sch, j, top.index)

\* C3: the callback of a schedule call whose handle was given to cancel before
\* its first invocation is never invoked.
C3_CancelSound == pc = "callback" => CallbackOf(sch, top.index) \notin cancelReq

\* C4: once is_alive(h) is false for an issued handle h, it stays false.
C4_HandleSafety ==
    [][\A c \in 1..nsched :
          ~is_alive(sch, handle[c]) => ~is_alive(sch', handle[c])]_vars

\* C5: cancel(h) returns true exactly when the event h was issued for is
\* Alive; then size() drops by one and is_alive(h) is false; otherwise it
\* returns false and changes nothing.
C5_CancelFrame ==
    /\ cancel(sch, InvalidID) = [ret |-> FALSE, s |-> sch]
    /\ \A c \in 1..nsched :
           LET r == cancel(sch, handle[c])
           IN  /\ r.ret = EventAlive(sch, c)
               /\ ~r.ret => r.s = sch
               /\ r.ret => r.s.alive = sch.alive - 1 /\ ~is_alive(r.s, handle[c])

\* C6: clear() outside a dispatch resets the scheduler, and no callback
\* scheduled before a clear is invoked after it.
C6_ClearResets ==
    /\ pc = "idle" =>
           LET s2 == clear(sch)
           IN  /\ s2.alive = 0
               /\ s2.current = 0
               /\ s2.fire_count = 0
               /\ s2.paused_time_ = 0
               /\ ~s2.paused
               /\ s2.pq = << >>
               /\ s2.fl = << >>
    /\ pc = "callback" => CallbackOf(sch, top.index) > clearedUpTo

\* C7: when a dispatch in which clear() was called ends, the events scheduled
\* after the last clear() are alive, installed and queued, the handles issued
\* before it are not alive, and size() counts exactly the former; no callback
\* scheduled before a clear that has been carried out is invoked.
C7_ClearThenSchedule ==
    /\ [][pc = "callback" /\ pc' = "idle" /\ clearMark >= 0 =>
            /\ \A c \in (clearMark + 1)..nsched :
                   /\ is_alive(sch', handle[c])
                   /\ CallbackOf(sch', handle[c].index) = c
                   /\ Queued(sch', handle[c])
            /\ \A c \in 1..clearMark : ~is_alive(sch', handle[c])
            /\ sch'.alive = nsched - clearMark]_vars
    /\ [](pc = "callback" => CallbackOf(sch, top.index) > clearedUpTo)

\* C8: tick_until(t) does what tick(max(0, t - now)) does.
C8_TickUntilEquiv ==
    pc = "idle" =>
        \A t \in Times :
            tick_until(sch, t) = tick(sch, IF t > sch.current THEN t - sch.current ELSE 0)

\* C9: peek() returns none exactly when no event is Alive, and otherwise a
\* live handle with the least next_fire of the Alive events.
C9_PeekFiltered ==
    pc = "idle" =>
        LET p == peek(sch)
        IN  /\ (p = << >>) = (AliveSlots(sch) = {})
            /\ p # << >> =>
                   /\ is_alive(sch, p[1])
                   /\ \A i \in AliveSlots(sch) : p[2] <= sch.events[i].next_fire

\* C10: while paused, tick(delta) adds delta to paused_time_ and does nothing
\* else: no callback is invoked and every other member keeps its value.
C10_PausedTick ==
    pc = "idle" /\ sch.paused =>
        \A delta_ms \in Deltas :
            tick(sch, delta_ms) =
                Returned([sch EXCEPT !.paused_time_ = sch.paused_time_ + delta_ms])

\* a paused scheduler that has taken ticks past the time of an Alive event
C10_Witness ==
    /\ pc = "idle"
    /\ sch.paused
    /\ sch.paused_time_ > 0
    /\ \E i \in AliveSlots(sch) :
           sch.events[i].next_fire <= sch.current + sch.paused_time_

\* a dispatch carried to its end with callbacks that return at once:
\* [s, fired], fired[c] counting the invocations of callback c
RECURSIVE Quiet(_, _, _)
Quiet(r, m, fired) ==
    IF is_valid(r.call)
    THEN Quiet(after_return(r.s, r.call, m), m,
               [fired EXCEPT ![CallbackOf(r.s, r.call.index)] = @ + 1])
    ELSE [s |-> r.s, fired |-> fired]

NoneFired == [c \in 0..MaxSched |-> 0]

\* the host's calls between pause() and resume()
PausedCalls ==
    [op : {"tick"}, arg : Deltas] \cup [op : {"tick_until"}, arg : Times]

\* the calls of the sequence from the i-th on, each carried to its end
RECURSIVE QuietCalls(_, _, _, _)
QuietCalls(s, calls, i, fired) ==
    IF i > Len(calls) THEN [s |-> s, fired |-> fired]
    ELSE LET c == calls[i]
             r == Quiet(IF c.op = "tick" THEN tick(s, c.arg) ELSE tick_until(s, c.arg),
                        "tick", fired)
         IN  QuietCalls(r.s, calls, i + 1, r.fired)

\* pause(), the calls, resume()
QuietPaused(s, calls) ==
    LET p == QuietCalls(pause(s), calls, 1, NoneFired)
    IN  Quiet(resume(p.s), "resume", p.fired)

\* C11: for every sequence of one or two tick / tick_until calls made
\* between pause() and resume(), now() after resume() and the number of
\* invocations of every callback equal those of the same calls made without
\* the pause (events are catchup=All, callbacks return at once).
C11_PauseTransparent ==
    pc = "idle" /\ ~sch.paused /\ sch.paused_time_ = 0 =>
        \A calls \in UNION {[1..n -> PausedCalls] : n \in 1..2} :
            LET p == QuietPaused(sch, calls)
                u == QuietCalls(sch, calls, 1, NoneFired)
            IN  /\ p.s.current = u.s.current
                /\ p.fired = u.fired

\* the outcome r of a dispatching call, if the call is over, leaves the
\* scheduler not paused and the paused_time register at 0
ResumeDone(r) == ~is_valid(r.call) => ~r.s.paused /\ r.s.paused_time_ = 0

\* C12: when a resume() call completes, by returning or by an error of a
\* Rethrow callback leaving it, paused is false and paused_time_ is 0
\* (callbacks do not call pause()).
C12_ResumeCompletes ==
    /\ pc = "idle" => ResumeDone(resume(sch))
    /\ pc = "callback" /\ mode = "resume" =>
           /\ ResumeDone(after_return(sch, top, mode))
           /\ ResumeDone(after_throw(sch, ep, top, mode))

\* fire_top of the running callback's event when the callback raises, up
\* to the end of fire_top (or to its rethrow)
Raised(s, policy, eid) == fire_top_leave(call_catch(s, policy, eid).s, eid)

\* no entry of the priority queue refers to the slot with its current
\* generation
Unqueued(s, i) ==
    \A k \in 1..Len(s.pq) : s.pq[k].index = i => s.pq[k].gen # s.gens[i]

\* C13: an error of a callback under Swallow or Cancel does not leave the
\* dispatch. Under Swallow a Repeat event stays Alive with next_fire moved by
\* exactly one interval and a Once event is retired; under Cancel the event,
\* Repeat or Once, is Cancelled, its handle not alive, no queue entry can
\* invoke it again, and size() is one less.
C13_SwallowCancel ==
    pc = "callback" /\ ep \in {"Swallow", "Cancel"} =>
        LET e == sch.events[top.index]
            s1 == Raised(sch, ep, top)
            e1 == s1.events[top.index]
            retired == /\ e1.status = "Cancelled"
                       /\ ~is_alive(s1, top)
                       /\ Unqueued(s1, top.index)
                       /\ s1.alive = sch.alive - 1
        IN  /\ ~after_throw(sch, ep, top, mode).thrown
            /\ ep = "Swallow" /\ e.desc.type = "Repeat" =>
                   /\ is_alive(s1, top)
                   /\ e1.next_fire = e.next_fire + e.desc.interval_ms
                   /\ Queued(s1, top)
                   /\ s1.alive = sch.alive
            /\ ep = "Swallow" /\ e.desc.type = "Once" => retired
            /\ ep = "Cancel" => retired

\* a Repeat event with policy Cancel has raised: its record is Cancelled and
\* its slot is in the free list
C13_Witness ==
    /\ pc = "idle"
    /\ \E i \in 1..Len(sch.events) :
           /\ sch.events[i].desc.type = "Repeat"
           /\ sch.events[i].desc.ep = "Cancel"
           /\ sch.events[i].status = "Cancelled"
           /\ \E k \in 1..Len(sch.fl) : sch.fl[k] = i

\* C14: when a callback raises under Rethrow in tick or run, the error
\* reaches the caller, and then: ticking is false, pending_clear is 0, the
\* mutation queue is empty and the events it held are alive and queued, a
\* raising Repeat is alive with next_fire moved by one interval, a raising
\* Once is retired, and an event scheduled next with delay 0 is invoked
\* exactly once by the two following tick(0) calls.
C14_RethrowConsistent ==
    pc = "callback" /\ ep = "Rethrow" /\ mode \in {"tick", "run"} =>
        LET r == after_throw(sch, ep, top, mode)
            e == sch.events[top.index]
            q == schedule_after(r.s, 0, OnceUser)
            t1 == Quiet(tick(q.s, 0), "tick", NoneFired)
            t2 == Quiet(tick(t1.s, 0), "tick", t1.fired)
        IN  /\ r.thrown /\ ~is_valid(r.call)
            /\ ~r.s.ticking
            /\ r.s.pending_clear = 0
            /\ r.s.delay_ops = << >>
            /\ \A k \in 1..Len(sch.delay_ops) :
                   sch.delay_ops[k].op_type = "Schedule" =>
                       /\ is_alive(r.s, sch.delay_ops[k].eid)
                       /\ Queued(r.s, sch.delay_ops[k].eid)
                       /\ CallbackOf(r.s, sch.delay_ops[k].eid.index)
                              = sch.delay_ops[k].desc.callback
            /\ /\ e.desc.type = "Repeat" /\ e.status = "Alive" /\ sch.pending_clear = 0
               /\ \A k \in 1..Len(sch.delay_ops) : sch.delay_ops[k].eid.index # top.index
               =>
                   /\ r.s.events[top.index].status = "Alive"
                   /\ ~Unqueued(r.s, top.index)
                   /\ r.s.events[top.index].next_fire = e.next_fire + e.desc.interval_ms
            /\ e.desc.type = "Once" =>
                   /\ r.s.events[top.index].status = "Cancelled"
                   /\ Unqueued(r.s, top.index)
            /\ t2.fired[0] = 1

\* a Repeat event of interval k with a callback that returns at once
RepeatEvery(k, cu) == Desc("Repeat", k, "Swallow", User, cu)

\* the host's calls that advance time, with pause() and resume() among them
HostCalls == [op : {"tick"}, arg : Times] \cup [op : {"pause", "resume"}, arg : {0}]

\* the calls of the sequence from the i-th on, each carried to its end
RECURSIVE QuietHost(_, _, _, _)
QuietHost(s, calls, i, fired) ==
    IF i > Len(calls) THEN [s |-> s, fired |-> fired]
    ELSE LET c == calls[i]
             r == IF c.op = "tick" THEN Quiet(tick(s, c.arg), "tick", fired)
                  ELSE IF c.op = "resume" THEN Quiet(resume(s), "resume", fired)
                  ELSE [s |-> pause(s), fired |-> fired]
         IN  QuietHost(r.s, calls, i + 1, r.fired)

\* schedule_after(k, f, Repeat, k, Swallow, User, cu) at t0 = now(), then the
\* calls: the handle, the final scheduler and the invocations of f
Cadence(s, k, cu, calls) ==
    LET q == schedule_after(s, k, RepeatEvery(k, cu))
        r == QuietHost(q.s, calls, 1, NoneFired)
    IN  [eid |-> q.ret, s |-> r.s, fired |-> r.fired[0], t0 |-> s.current]

CallSeqs == UNION {[1..n -> HostCalls] : n \in 1..3}

\* C15: a Repeat event of interval k and catchup=All scheduled at t0 with its
\* first fire at t0 + k has been invoked exactly n times and is still Alive
\* once now() is t0 + n*k, for every split of the advance into at most three
\* tick, pause and resume calls.
C15_RepeatCadence ==
    pc = "idle" /\ ~sch.paused /\ sch.paused_time_ = 0 =>
        \A k \in Intervals, calls \in CallSeqs :
            LET c == Cadence(sch, k, "All", calls)
            IN  (c.s.current - c.t0) % k = 0 =>
                    /\ c.fired = (c.s.current - c.t0) \div k
                    /\ is_alive(c.s, c.eid)

\* two periods elapse during a pause and both invocations are made at resume
C15_Witness ==
    /\ pc = "idle" /\ ~sch.paused /\ sch.paused_time_ = 0
    /\ sch.alive > 0
    /\ LET c == Cadence(sch, 1, "All",
                        << [op |-> "pause", arg |-> 0], [op |-> "tick", arg |-> 2],
                           [op |-> "resume", arg |-> 0] >>)
       IN  c.fired = 2 /\ c.s.current = c.t0 + 2 /\ is_alive(c.s, c.eid)

\* the periods of the event scheduled by Cadence that have elapsed
Elapsed(c, k) == (c.s.current - c.t0) \div k

\* C16 as stated: a Repeat event of interval k and catchup=Latest scheduled
\* at t0 with its first fire at t0 + k has been invoked exactly once and has
\* next_fire = t0 + n*k once now() is t0 + n*k with n >= 1, for every split
\* of the advance into at most three tick, pause and resume calls.
C16_RepeatCollapse ==
    pc = "idle" /\ ~sch.paused /\ sch.paused_time_ = 0 =>
        \A k \in Intervals, calls \in CallSeqs :
            LET c == Cadence(sch, k, "Latest", calls)
                n == Elapsed(c, k)
            IN  (c.s.current - c.t0) % k = 0 /\ n >= 1 =>
                    /\ c.fired = 1
                    /\ c.s.events[c.eid.index].next_fire = c.t0 + n * k

\* C16 amended: in the same scenario the event has been invoked at least
\* once and at most n times, exactly once when the advance is a single
\* tick, it is still Alive, and its next_fire is t0 + (n + 1)*k: the fire
\* collapsed to t0 + n*k is followed by a reschedule of one interval.
C16_CollapseAmended ==
    pc = "idle" /\ ~sch.paused /\ sch.paused_time_ = 0 =>
        \A k \in Intervals, calls \in CallSeqs :
            LET c == Cadence(sch, k, "Latest", calls)
                n == Elapsed(c, k)
            IN  n >= 1 =>
                    /\ c.fired >= 1 /\ c.fired <= n
                    /\ Len(calls) = 1 => c.fired = 1
                    /\ is_alive(c.s, c.eid)
                    /\ c.s.events[c.eid.index].next_fire = c.t0 + (n + 1) * k

\* one tick over two periods collapses them into one invocation
C16_Witness ==
    /\ pc = "idle" /\ ~sch.paused /\ sch.paused_time_ = 0
    /\ sch.alive > 0
    /\ LET c == Cadence(sch, 1, "Latest", << [op |-> "tick", arg |-> 2] >>)
       IN  c.fired = 1 /\ c.s.events[c.eid.index].next_fire = c.t0 + 3

\* the number of times slot i is in the free list
Harvested(s, i) == Cardinality({k \in 1..Len(s.fl) : s.fl[k] = i})

\* the running callback calls cancel(top) and returns: the scheduler at the
\* end of fire_top, and the invocations of the callback over the rest of the
\* dispatch and a following tick(MaxTime)
SelfCancelled(s, eid, m) ==
    LET c == cancel(s, eid)
        rest == Quiet(after_return(c.s, eid, m), m, NoneFired)
        later == Quiet(tick([rest.s EXCEPT !.paused = FALSE], MaxTime), "tick", rest.fired)
    IN  [ret |-> c.ret, left |-> fire_top_leave(c.s, eid),
         s |-> later.s, fired |-> later.fired[CallbackOf(s, eid.index)]]

\* C17: when the callback of a Repeat event cancels its own (live) handle
\* and returns, the record is Cancelled, no queue entry of the slot is left
\* (it is not rescheduled), the slot is in the free list exactly once,
\* size() is one less than before the cancel, and the callback is not invoked
\* again in the rest of the dispatch nor by a later tick of MaxTime, after
\* which the slot is still in the free list once.
C17_SelfCancel ==
    pc = "callback" /\ sch.events[top.index].desc.type = "Repeat" /\ is_alive(sch, top) =>
        LET c == SelfCancelled(sch, top, mode)
        IN  /\ c.ret
            /\ c.left.events[top.index].status = "Cancelled"
            /\ ~is_alive(c.left, top)
            /\ \A k \in 1..Len(c.left.pq) : c.left.pq[k].index # top.index
            /\ Harvested(c.left, top.index) = 1
            /\ c.left.alive = sch.alive - 1
            /\ c.fired = 0
            /\ Harvested(c.s, top.index) = 1

\* the callback of a Repeat event has cancelled its own handle
C17_Witness ==
    /\ pc = "callback"
    /\ sch.events[top.index].desc.type = "Repeat"
    /\ sch.events[top.index].status = "Cancelled"
    /\ top.gen = sch.gens[top.index]
    /\ sch.pending_clear = 0
    /\ Harvested(fire_top_leave(sch, top), top.index) = 1

\* the handle of the event in slot i
HandleOf(s, i) == [index |-> i, gen |-> s.gens[i]]

\* cancel(h) for the handles of the slots from the i-th on
RECURSIVE CancelAll(_, _, _)
CancelAll(s, slots, i) ==
    IF i > Len(slots) THEN s
    ELSE CancelAll(cancel(s, HandleOf(s, slots[i])).s, slots, i + 1)

\* n calls of schedule_after(0, f): the scheduler and the slots of the
\* handles returned
RECURSIVE ScheduleFresh(_, _, _)
ScheduleFresh(s, n, got) ==
    IF n = 0 THEN [s |-> s, slots |-> got]
    ELSE LET r == schedule_after(s, 0, OnceUser)
         IN  ScheduleFresh(r.s, n - 1, got \cup {r.ret.index})

\* the orders in which m of the Alive events can be cancelled
CancelOrders(s, m) ==
    {q \in [1..m -> AliveSlots(s)] : \A a, b \in 1..m : a # b => q[a] # q[b]}

\* C18: between dispatches, for every m >= 1 and every choice of m Alive
\* events, after cancelling them and scheduling m fresh events the set of
\* slots of the new handles equals the set of slots of the cancelled handles,
\* and every cancelled handle is reported not alive.
C18_SlotReuse ==
    pc = "idle" =>
        \A m \in 1..Cardinality(AliveSlots(sch)) : \A q \in CancelOrders(sch, m) :
            LET c == CancelAll(sch, q, 1)
                f == ScheduleFresh(c, m, {})
            IN  /\ f.slots = Range(q)
                /\ \A a \in 1..m : ~is_alive(c, HandleOf(sch, q[a]))

\* C19: between operations the priority queue holds at most 2 * size() + 1
\* entries.
C19_GCBound == pc = "idle" => Len(sch.pq) <= 2 * sch.alive + 1

\* C20: the next_fire values of the events, taken at the moment each one
\* fires, form a non-decreasing sequence: each fire's value is at least the
\* previous fire's.
C20_MonotonicFires == Len(fireTimes) = 2 => fireTimes[1] <= fireTimes[2]

\* no Repeat event is Alive or waits in the mutation queue
NoRepeat(s) ==
    /\ \A i \in AliveSlots(s) : s.events[i].desc.type # "Repeat"
    /\ \A k \in 1..Len(s.delay_ops) :
           s.delay_ops[k].op_type = "Schedule" => s.delay_ops[k].desc.type # "Repeat"

\* run() has returned with the queue drained
Drained(r) == ~is_valid(r.call) /\ ~r.over => r.s.pq = << >> /\ r.s.alive = 0

\* C21: run() called while not paused with no Alive Repeat event sets now()
\* to the next_fire of each event as it fires, and when it returns the queue
\* is empty and size() = 0, also when the callbacks it fires schedule events.
C21_RunDrains ==
    /\ pc = "idle" /\ ~sch.paused /\ NoRepeat(sch) => Drained(run(sch))
    /\ pc = "callback" /\ mode = "run" /\ NoRepeat(sch) =>
           /\ cbops = 0 => sch.current = sch.events[top.index].next_fire
           /\ Drained(after_return(sch, top, mode))

\* the host's tick calls
TickSeqs == UNION {[1..n -> [op : {"tick"}, arg : Times]] : n \in 1..3}

\* schedule_after(delta, f) or schedule_at(T, f) of a Once event f between
\* dispatches, then the ticks: the handle, the time T, the final scheduler
\* and the invocations of f
OnceRun(s, how, arg, calls) ==
    LET q == IF how = "after" THEN schedule_after(s, arg, OnceUser)
             ELSE schedule_at(s, arg, OnceUser)
        r == QuietHost(q.s, calls, 1, NoneFired)
    IN  [eid |-> q.ret, T |-> IF how = "after" THEN s.current + arg ELSE arg,
         q |-> q.s, s |-> r.s, fired |-> r.fired[0]]

\* the largest next_fire of the Alive events, -1 when there is none
RECURSIVE LastDue(_, _)
LastDue(s, i) ==
    IF i = 0 THEN -1
    ELSE LET m == LastDue(s, i - 1)
         IN  IF s.events[i].status = "Alive" /\ s.events[i].next_fire > m
             THEN s.events[i].next_fire ELSE m

\* C22: a Once event scheduled between dispatches for time T (by
\* schedule_after or schedule_at) and left alone has not been invoked after
\* ticks that leave now < T, and after ticks that reach now >= T it has been
\* invoked exactly once, its handle is not alive, its record is Cancelled
\* and size() is below its value after the schedule call; with only Once
\* events, ticks past the largest scheduled time leave size() = 0.
C22_OnceFiresOnce ==
    pc = "idle" /\ ~sch.paused /\ sch.paused_time_ = 0 =>
        \A how \in {"after", "at"}, arg \in Times, calls \in TickSeqs :
            LET c == OnceRun(sch, how, arg, calls)
            IN  /\ c.s.current < c.T => c.fired = 0 /\ is_alive(c.s, c.eid)
                /\ c.s.current >= c.T =>
                       /\ c.fired = 1
                       /\ ~is_alive(c.s, c.eid)
                       /\ c.s.events[c.eid.index].status = "Cancelled"
                       /\ c.s.alive < c.q.alive
                /\ NoRepeat(sch) /\ c.s.current >= LastDue(c.q, Len(c.q.events)) =>
                       c.s.alive = 0

\* an event scheduled for a later time is not invoked by a tick short of it
\* and is invoked once by the tick that reaches it
C22_Witness ==
    /\ pc = "idle" /\ ~sch.paused /\ sch.paused_time_ = 0
    /\ sch.alive > 0
    /\ LET c == OnceRun(sch, "after", 2, << [op |-> "tick", arg |-> 1] >>)
           d == OnceRun(sch, "after", 2, << [op |-> "tick", arg |-> 1], [op |-> "tick", arg |-> 1] >>)
       IN  c.fired = 0 /\ d.fired = 1 /\ d.s.current = d.T

\* C23: in every reachable state size() equals the number of event records
\* whose status is Alive.
C23_SizeCountsAlive == sch.alive = Cardinality(AliveSlots(sch))

\* the queue entries of slot i that carry its current generation
CurrentEntries(s, i) ==
    {k \in 1..Len(s.pq) : s.pq[k].index = i /\ s.pq[k].gen = s.gens[i]}

\* C24: between dispatches every slot is either in the free list with
\* status Cancelled, or referenced by exactly one queue entry of its current
\* generation; so every Alive event has exactly one such entry.
C24_SlotAccounting ==
    pc = "idle" =>
        \A i \in 1..Len(sch.events) :
            \/ Harvested(sch, i) > 0 /\ sch.events[i].status = "Cancelled"
            \/ Cardinality(CurrentEntries(sch, i)) = 1

\* C25: in every reachable state no slot of the free list holds an Alive
\* record or is referenced by a queue entry of its current generation, and
\* no slot is in the free list twice.
C25_FreeListWellFormed ==
    \A k \in 1..Len(sch.fl) :
        /\ sch.events[sch.fl[k]].status # "Alive"
        /\ CurrentEntries(sch, sch.fl[k]) = {}
        /\ Harvested(sch, sch.fl[k]) = 1

\* the dispatch has completed and no Alive Repeat event is overdue
RepeatsAhead(r) ==
    ~is_valid(r.call) /\ ~r.over =>
        \A i \in AliveSlots(r.s) :
            r.s.events[i].desc.type = "Repeat" => r.s.events[i].next_fire >= r.s.current

\* C26: when a tick, tick_until or resume call completes, by returning or by
\* an error of a Rethrow callback leaving it, every Alive Repeat event has
\* next_fire >= now().
C26_RepeatNotOverdue ==
    /\ pc = "idle" =>
           /\ \A delta_ms \in Deltas : RepeatsAhead(tick(sch, delta_ms))
           /\ \A end_time \in Times : RepeatsAhead(tick_until(sch, end_time))
           /\ RepeatsAhead(resume(sch))
    /\ pc = "callback" /\ mode \in {"tick", "resume"} =>
           /\ RepeatsAhead(after_return(sch, top, mode))
           /\ RepeatsAhead(after_throw(sch, ep, top, mode))

\* the assertions of handle_clear_op (lines 179 and 185) hold for the ops
ClearFirst(ops) ==
    \A i \in 1..Len(ops) :
        ops[i].op_type = "Clear" =>
            /\ i = 1
            /\ \A j \in 2..Len(ops) : ops[j].op_type = "Schedule"

\* C27: when the mutation queue is flushed at the end of a dispatch, a Clear
\* op, if present, is its first entry and every entry after it is a
\* Schedule op.
C27_ClearOpFirst ==
    pc = "callback" =>
        LET r == after_return(sch, top, mode)
        IN  ~is_valid(r.call) /\ ~r.over => ClearFirst(sch.delay_ops)

\* C28: now() never decreases: no step of a tick, run, pause or resume call
\* (nor of the callbacks they invoke) moves the clock backwards.
C28_ClockMonotone == [][sch.current' >= sch.current]_vars

\* the handle h stays usable in s, the scheduler after the re-timing to t
\* has taken effect: it is alive, a tick to t (or a tick(0) when t is past)
\* invokes the callback cb of a Once event exactly once, and cancel(h)
\* returns true
Usable(s, h, t, cb, once) ==
    LET d == IF t > s.current THEN t - s.current ELSE 0
    IN  /\ is_alive(s, h)
        /\ once => Quiet(tick([s EXCEPT !.paused = FALSE], d), "tick", NoneFired).fired[cb] = 1
        /\ cancel(s, h).ret

\* C29: after set_next_fire(h, t) or delay(h, t - next_fire) on a live
\* handle h, applied at once between dispatches or in a callback, or
\* journalled in a callback and applied when the dispatch ends, h is still
\* alive, the event fires exactly once at the new time, and cancel(h)
\* returns true.
C29_RetimeKeepsHandle ==
    \A i \in AliveSlots(sch), t \in Times :
        LET h == HandleOf(sch, i)
            e == sch.events[i]
            s1 == delay(sch, h, t - e.next_fire)
            r == after_return(s1, top, mode)
        IN  e.next_fire # t /\ sch.pending_clear = 0 =>
                /\ pc = "idle" => Usable(s1, h, t, e.desc.callback, e.desc.type = "Once")
                /\ pc = "callback" /\ i # top.index /\ ~is_valid(r.call) /\ ~r.over =>
                       Usable(r.s, h, t, e.desc.callback, e.desc.type = "Once")

\* C30: every Alive Repeat event has interval > 0, and an event that fires
\* again in the same dispatch fires with a larger next_fire, so that a tick
\* invokes finitely many callbacks.
C30_TickTerminates ==
    /\ \A i \in AliveSlots(sch) :
           sch.events[i].desc.type = "Repeat" => sch.events[i].desc.interval_ms > 0
    /\ pc = "callback" =>
           LET r == after_return(sch, top, mode)
           IN  is_valid(r.call) /\ r.call.index = top.index =>
                   r.s.events[top.index].next_fire > sch.events[top.index].next_fire

====
